---------------------------- MODULE Spec2Model ----------------------------
(***************************************************************************)
(* A model of the ECAP accreditation backend (backend/app): the user       *)
(* table and the auth and admin routes that act on it, the relational      *)
(* data model (Accreditation > Program > Area > Parameter > Submission,    *)
(* ProgressTracking, Notification, AccreditationMember) with its foreign   *)
(* keys and delete cascades, and the submission review workflow.           *)
(*                                                                         *)
(* Abstractions: a bcrypt hash is the pair <<"bcrypt", password>> (the     *)
(* salt is dropped: only check_password reads a hash); a timestamp column  *)
(* is a count of the writes made to it (0 is NULL); created_at and         *)
(* updated_at are left out.  name and position_in_school are one column,   *)
(* profile: the routes require, store and update the two alike.  An        *)
(* optional request field or a nullable column is <<>> (absent, NULL) or   *)
(* <<v>>.                                                                  *)
(***************************************************************************)
EXTENDS Integers, Sequences, FiniteSets, TLC

VARIABLES
    users,          \* table users: id -> row (committed state)
    session,        \* db.session: <<>> when clean, <<image>> with pending writes
    tokens,         \* identities for which an access token was issued
    resp,           \* the last request handled: [route, code]
    accreditations, \* table accreditations: id -> row
    programs,       \* table programs
    areas,          \* table areas
    parameters,     \* table parameters
    submissions,    \* table submissions
    members,        \* table accreditation_members
    notifications,  \* table notifications (a set of rows)
    progress,       \* table progress_tracking: id -> row
    requests        \* the requests being handled concurrently: slot -> request

userVars == <<users, session, tokens>>
refVars  == <<areas, parameters, submissions>>
treeVars == <<accreditations, programs, members, progress>>
vars == <<users, session, tokens, resp, accreditations, programs, areas,
          parameters, submissions, members, notifications, progress, requests>>

---------------------------------------------------------------------------
(* Bounds of the model *)
MaxUserId == 2
MaxLogins == 1

(* Request values *)
AdminEmail == "admin@ecap.com"
Emails == {AdminEmail, "user@ecap.com"}
Passwords == {"admin123", "secret"}
GeneratedPasswords == {"Gx7kQ2mLp9Za"}
BadType == "<not a string>"
Profiles == {"Administrator"}
NoBody == [body |-> FALSE]

Opt(S) == {<<>>} \cup {<<v>> : v \in S}
Has(o) == o # <<>>
NULL == <<>>

Max(S) == CHOOSE m \in S : \A x \in S : x <= m
Min(S) == CHOOSE m \in S : \A x \in S : m <= x

Put(tbl, id, row) == [i \in DOMAIN tbl \cup {id} |-> IF i = id THEN row ELSE tbl[i]]
Remove(tbl, ids) == [i \in DOMAIN tbl \ ids |-> tbl[i]]
\* An Integer primary key on the default sqlite store: max(rowid) + 1.
NextId(tbl) == IF DOMAIN tbl = {} THEN 1 ELSE Max(DOMAIN tbl) + 1
EmptyTable == [i \in {} |-> 0]

---------------------------------------------------------------------------
(* User model *)
SetPassword(row, password) == [row EXCEPT !.password_hash = <<"bcrypt", password>>]
CheckPassword(row, password) == row.password_hash = <<"bcrypt", password>>

NewUser(email, profile, isAdmin) ==
    [email |-> email, password_hash |-> <<>>, profile |-> profile,
     is_admin |-> isAdmin, is_active |-> TRUE, last_login |-> 0]

\* User.query.filter_by(email=...).first()
ByEmail(tbl, email) == {i \in DOMAIN tbl : tbl[i].email = email}
\* A variant whose lookup never finds a row.
EmailTakenNever(tbl, email) == FALSE
EmailTaken(tbl, email) == ByEmail(tbl, email) # {}
\* A users.email column without unique=True.
EmailsUniqueUnchecked(tbl) == TRUE
\* users.email is unique=True
EmailsUnique(tbl) == \A i, j \in DOMAIN tbl : tbl[i].email = tbl[j].email => i = j

---------------------------------------------------------------------------
(* db.session: the unit of work of one request *)
Clean == <<>>
Work(tbl, sess) == IF sess = Clean THEN tbl ELSE sess[1]
\* db.session.commit(): the flush fails on a constraint violation or when the
\* store fails (dbFail); it then raises and the pending image stays.
CommitOk(work, dbFail) == ~dbFail /\ EmailsUnique(work)
Rollback(sess) == Clean
\* flask_sqlalchemy removes the scoped session when the request's app
\* context is torn down, which discards what was not committed.
Teardown(sess) == Clean

\* What a handler returns: the response code and the state it leaves.
Ret(code, tbl, sess) ==
    [code |-> code, users |-> tbl, session |-> sess, token |-> 0,
     areas |-> areas, parameters |-> parameters, submissions |-> submissions]

---------------------------------------------------------------------------
(* routes/auth.py *)
LoginData == [email : Opt(Emails), password : Opt(Passwords)]

\* A variant that does not look at is_active.
LoginInactiveAllowed(tbl, sess, data, dbFail) ==
    LET work == Work(tbl, sess) IN
    IF ~Has(data.email) \/ ~Has(data.password) THEN Ret(400, tbl, sess)
    ELSE LET found == ByEmail(work, data.email[1]) IN
         IF found = {} \/ ~CheckPassword(work[Min(found)], data.password[1])
         THEN Ret(401, tbl, sess)
         ELSE LET uid == Min(found)
                  written == [work EXCEPT ![uid].last_login = @ + 1] IN
              IF CommitOk(written, dbFail)
              THEN [Ret(200, written, Clean) EXCEPT !.token = uid]
              ELSE Ret(500, tbl, <<written>>)

Login(tbl, sess, data, dbFail) ==
    LET work == Work(tbl, sess) IN
    IF ~Has(data.email) \/ ~Has(data.password) THEN Ret(400, tbl, sess)
    ELSE LET found == ByEmail(work, data.email[1]) IN
         IF found = {} \/ ~CheckPassword(work[Min(found)], data.password[1])
         THEN Ret(401, tbl, sess)
         ELSE LET uid == Min(found)
                  written == [work EXCEPT ![uid].last_login = @ + 1] IN
              IF ~work[uid].is_active THEN Ret(401, tbl, sess)
              ELSE IF CommitOk(written, dbFail)
                   THEN [Ret(200, written, Clean) EXCEPT !.token = uid]
                   ELSE Ret(500, tbl, <<written>>)   \* no rollback in login

\* is_admin: a key register does not read.
RegisterData ==
    [email : Opt(Emails), password : Opt(Passwords), profile : Opt(Profiles),
     is_admin : Opt({TRUE})]

\* A variant that takes is_admin from the request body.
RegisterTrustsBody(tbl, sess, data, dbFail) ==
    LET work == Work(tbl, sess) IN
    IF ~Has(data.email) \/ ~Has(data.password) \/ ~Has(data.profile)
    THEN Ret(400, tbl, sess)
    ELSE IF EmailTaken(work, data.email[1]) THEN Ret(409, tbl, sess)
    ELSE LET user == SetPassword(NewUser(data.email[1], data.profile[1],
                                         Has(data.is_admin)),
                                 data.password[1])
             written == Put(work, NextId(work), user) IN
         IF CommitOk(written, dbFail) THEN Ret(201, written, Clean)
         ELSE Ret(500, tbl, Rollback(<<written>>))

Register(tbl, sess, data, dbFail) ==
    LET work == Work(tbl, sess) IN
    IF ~Has(data.email) \/ ~Has(data.password) \/ ~Has(data.profile)
    THEN Ret(400, tbl, sess)
    ELSE IF EmailTaken(work, data.email[1]) THEN Ret(409, tbl, sess)
    ELSE LET user == SetPassword(NewUser(data.email[1], data.profile[1], FALSE),
                                 data.password[1])
             written == Put(work, NextId(work), user) IN
         IF CommitOk(written, dbFail) THEN Ret(201, written, Clean)
         ELSE Ret(500, tbl, Rollback(<<written>>))

ChangePasswordData ==
    [current_password : Opt(Passwords), new_password : Opt(Passwords)]

ChangePassword(tbl, sess, caller, data, dbFail) ==
    LET work == Work(tbl, sess) IN
    IF ~Has(data.current_password) \/ ~Has(data.new_password)
    THEN Ret(400, tbl, sess)
    ELSE IF caller \notin DOMAIN work THEN Ret(404, tbl, sess)
    ELSE IF ~CheckPassword(work[caller], data.current_password[1])
    THEN Ret(401, tbl, sess)
    ELSE LET written == [work EXCEPT
                           ![caller] = SetPassword(@, data.new_password[1])] IN
         IF CommitOk(written, dbFail) THEN Ret(200, written, Clean)
         ELSE Ret(500, tbl, Rollback(<<written>>))

---------------------------------------------------------------------------
(* routes/admin.py *)
\* admin_required: the caller's row is read when the request is checked.
IsAdmin(tbl, caller) == caller \in DOMAIN tbl /\ tbl[caller].is_admin
\* A variant that only checks that the caller's row exists.
AdminRequiredAnyUser(tbl, sess, caller) == caller \in DOMAIN Work(tbl, sess)
AdminRequired(tbl, sess, caller) == IsAdmin(Work(tbl, sess), caller)

GetAllUsers(tbl, sess, caller) ==
    IF ~AdminRequired(tbl, sess, caller) THEN Ret(403, tbl, sess)
    ELSE Ret(200, tbl, sess)

GetUser(tbl, sess, caller, target) ==
    IF ~AdminRequired(tbl, sess, caller) THEN Ret(403, tbl, sess)
    ELSE IF target \notin DOMAIN Work(tbl, sess) THEN Ret(404, tbl, sess)
    ELSE Ret(200, tbl, sess)

CreateUserData ==
    [email : Opt(Emails), profile : Opt(Profiles),
     password : Opt({"secret"}), is_admin : Opt(BOOLEAN)]

CreateUser(tbl, sess, caller, data, generated, dbFail) ==
    LET work == Work(tbl, sess) IN
    IF ~AdminRequired(tbl, sess, caller) THEN Ret(403, tbl, sess)
    ELSE IF ~Has(data.email) \/ ~Has(data.profile)
    THEN Ret(400, tbl, sess)
    ELSE IF EmailTaken(work, data.email[1]) THEN Ret(409, tbl, sess)
    ELSE LET password == IF Has(data.password) THEN data.password[1] ELSE generated
             isAdmin == IF Has(data.is_admin) THEN data.is_admin[1] ELSE FALSE
             user == SetPassword(NewUser(data.email[1], data.profile[1], isAdmin),
                                 password)
             written == Put(work, NextId(work), user) IN
         IF CommitOk(written, dbFail) THEN Ret(201, written, Clean)
         ELSE Ret(500, tbl, Rollback(<<written>>))

UpdateUserData ==
    [profile : Opt(Profiles), is_admin : Opt(BOOLEAN), is_active : Opt(BOOLEAN),
     password : Opt({"secret", BadType})]

\* The fields update_user assigns before it reaches set_password.
UpdateFields(row, data) ==
    [row EXCEPT
       !.profile = IF Has(data.profile) THEN data.profile[1] ELSE @,
       !.is_admin = IF Has(data.is_admin) THEN data.is_admin[1] ELSE @,
       !.is_active = IF Has(data.is_active) THEN data.is_active[1] ELSE @]

\* A variant that commits the assigned fields before it sets the password.
UpdateUserEarlyCommit(tbl, sess, caller, target, data, dbFail) ==
    LET work == Work(tbl, sess) IN
    IF ~AdminRequired(tbl, sess, caller) THEN Ret(403, tbl, sess)
    ELSE IF target \notin DOMAIN work THEN Ret(404, tbl, sess)
    ELSE IF data = NoBody THEN Ret(500, tbl, Rollback(sess))
    ELSE LET assigned == [work EXCEPT ![target] = UpdateFields(@, data)] IN
         IF ~CommitOk(assigned, dbFail) THEN Ret(500, tbl, Rollback(<<assigned>>))
         ELSE IF Has(data.password) /\ data.password[1] = BadType
         THEN Ret(500, assigned, Rollback(<<assigned>>))
         ELSE IF Has(data.password)
         THEN Ret(200, [assigned EXCEPT ![target] = SetPassword(@, data.password[1])],
                  Clean)
         ELSE Ret(200, assigned, Clean)

\* data = NoBody: request.get_json() is None and "'name' in data" raises.
UpdateUser(tbl, sess, caller, target, data, dbFail) ==
    LET work == Work(tbl, sess) IN
    IF ~AdminRequired(tbl, sess, caller) THEN Ret(403, tbl, sess)
    ELSE IF target \notin DOMAIN work THEN Ret(404, tbl, sess)
    ELSE IF data = NoBody THEN Ret(500, tbl, Rollback(sess))
    ELSE LET assigned == [work EXCEPT ![target] = UpdateFields(@, data)] IN
         IF Has(data.password) /\ data.password[1] = BadType
         THEN Ret(500, tbl, Rollback(<<assigned>>))   \* set_password raises
         ELSE LET written ==
                    IF Has(data.password)
                    THEN [assigned EXCEPT ![target] = SetPassword(@, data.password[1])]
                    ELSE assigned IN
              IF CommitOk(written, dbFail) THEN Ret(200, written, Clean)
              ELSE Ret(500, tbl, Rollback(<<written>>))

\* Rows that hold a NOT NULL foreign key to users.id: the flush of the delete
\* sets the key to NULL and the store refuses it.
ReferencedNotNull(uid) ==
    \/ \E a \in DOMAIN accreditations : accreditations[a].created_by = uid
    \/ \E s \in DOMAIN submissions : submissions[s].submitted_by = uid
    \/ \E n \in notifications : n.user_id = uid
    \/ \E m \in DOMAIN members : members[m].user_id = uid \/ members[m].added_by = uid

\* Rows that hold a nullable foreign key to users.id: the flush of the delete
\* sets the key to NULL (the relationships declare no delete cascade).
NullifyChair(tbl, uid) ==
    [a \in DOMAIN tbl |->
        IF tbl[a].chairperson_id = <<uid>>
        THEN [tbl[a] EXCEPT !.chairperson_id = NULL] ELSE tbl[a]]
NullifyAssigned(tbl, uid) ==
    [p \in DOMAIN tbl |->
        IF tbl[p].assigned_member_id = <<uid>>
        THEN [tbl[p] EXCEPT !.assigned_member_id = NULL] ELSE tbl[p]]
NullifyReviewer(tbl, uid) ==
    [s \in DOMAIN tbl |->
        IF tbl[s].reviewed_by = <<uid>>
        THEN [tbl[s] EXCEPT !.reviewed_by = NULL] ELSE tbl[s]]

DeleteUser(tbl, sess, caller, target, dbFail) ==
    LET work == Work(tbl, sess) IN
    IF ~AdminRequired(tbl, sess, caller) THEN Ret(403, tbl, sess)
    ELSE IF caller = target THEN Ret(400, tbl, sess)
    ELSE IF target \notin DOMAIN work THEN Ret(404, tbl, sess)
    ELSE LET written == Remove(work, {target}) IN
         IF CommitOk(written, dbFail) /\ ~ReferencedNotNull(target)
         THEN [Ret(200, written, Clean) EXCEPT
                 !.areas = NullifyChair(areas, target),
                 !.parameters = NullifyAssigned(parameters, target),
                 !.submissions = NullifyReviewer(submissions, target)]
         ELSE Ret(500, tbl, Rollback(<<written>>))

ResetUserPassword(tbl, sess, caller, target, generated, dbFail) ==
    LET work == Work(tbl, sess) IN
    IF ~AdminRequired(tbl, sess, caller) THEN Ret(403, tbl, sess)
    ELSE IF target \notin DOMAIN work THEN Ret(404, tbl, sess)
    ELSE LET written == [work EXCEPT ![target] = SetPassword(@, generated)] IN
         IF CommitOk(written, dbFail) THEN Ret(200, written, Clean)
         ELSE Ret(500, tbl, Rollback(<<written>>))

---------------------------------------------------------------------------
(* app/__init__.py: create_app() *)
DefaultAdmin ==
    SetPassword(NewUser(AdminEmail, "Administrator", TRUE), "admin123")
\* A variant that writes the default admin over an existing row.
BootstrapReset(tbl) ==
    IF EmailTaken(tbl, AdminEmail)
    THEN [i \in DOMAIN tbl |->
            IF tbl[i].email = AdminEmail THEN DefaultAdmin ELSE tbl[i]]
    ELSE Put(tbl, NextId(tbl), DefaultAdmin)
Bootstrap(tbl) ==
    IF EmailTaken(tbl, AdminEmail) THEN tbl ELSE Put(tbl, NextId(tbl), DefaultAdmin)

---------------------------------------------------------------------------
(* The requests as steps of the system *)
UserIds == 1..MaxUserId

\* The state a handler leaves once its request ends.
Apply(route, r) ==
    /\ users' = r.users
    /\ session' = Teardown(r.session)
    /\ tokens' = IF r.token = 0 THEN tokens ELSE tokens \cup {r.token}
    /\ areas' = r.areas
    /\ parameters' = r.parameters
    /\ submissions' = r.submissions
    /\ resp' = [route |-> route, code |-> r.code]
    /\ UNCHANGED <<accreditations, programs, members, notifications, progress, requests>>

\* The bounds: a row is added only while its id is in range.
RoomFor(r) == DOMAIN r.users \subseteq 1..MaxUserId

DoLogin ==
    \E data \in LoginData, dbFail \in BOOLEAN :
        LET r == Login(users, session, data, dbFail) IN
        /\ \A u \in DOMAIN r.users : r.users[u].last_login <= MaxLogins
        /\ Apply("login", r)

DoRegister ==
    \E data \in RegisterData, dbFail \in BOOLEAN :
        LET r == Register(users, session, data, dbFail) IN
        RoomFor(r) /\ Apply("register", r)

DoChangePassword ==
    \E caller \in tokens, data \in ChangePasswordData, dbFail \in BOOLEAN :
        Apply("change_password", ChangePassword(users, session, caller, data, dbFail))

DoGetAllUsers ==
    \E caller \in tokens : Apply("get_all_users", GetAllUsers(users, session, caller))

DoGetUser ==
    \E caller \in tokens, target \in UserIds :
        Apply("get_user", GetUser(users, session, caller, target))

DoCreateUser ==
    \E caller \in tokens, data \in CreateUserData,
       generated \in GeneratedPasswords, dbFail \in BOOLEAN :
        LET r == CreateUser(users, session, caller, data, generated, dbFail) IN
        RoomFor(r) /\ Apply("create_user", r)

DoUpdateUser ==
    \E caller \in tokens, target \in UserIds,
       data \in UpdateUserData \cup {NoBody}, dbFail \in BOOLEAN :
        Apply("update_user",
              UpdateUser(users, session, caller, target, data, dbFail))

DoDeleteUser ==
    \E caller \in tokens, target \in UserIds, dbFail \in BOOLEAN :
        Apply("delete_user", DeleteUser(users, session, caller, target, dbFail))

DoResetUserPassword ==
    \E caller \in tokens, target \in UserIds,
       generated \in GeneratedPasswords, dbFail \in BOOLEAN :
        Apply("reset_user_password",
              ResetUserPassword(users, session, caller, target, generated, dbFail))

CreateApp ==
    /\ DOMAIN Bootstrap(users) \subseteq 1..MaxUserId
    /\ users' = Bootstrap(users)
    /\ session' = Clean
    /\ resp' = [route |-> "create_app", code |-> 0]
    /\ UNCHANGED <<tokens, accreditations, programs, areas, parameters,
                   submissions, members, notifications, progress, requests>>

InitUsers ==
    /\ users = Bootstrap(EmptyTable)
    /\ session = Clean
    /\ tokens = {}
    /\ resp = [route |-> "create_app", code |-> 0]
    /\ requests = EmptyTable

InitNoData ==
    /\ accreditations = EmptyTable
    /\ programs = EmptyTable
    /\ areas = EmptyTable
    /\ parameters = EmptyTable
    /\ submissions = EmptyTable
    /\ members = EmptyTable
    /\ notifications = {}
    /\ progress = EmptyTable

Init == InitUsers /\ InitNoData

Next ==
    \/ DoLogin
    \/ DoRegister
    \/ DoChangePassword
    \/ DoGetAllUsers
    \/ DoGetUser
    \/ DoCreateUser
    \/ DoUpdateUser
    \/ DoDeleteUser
    \/ DoResetUserPassword
    \/ CreateApp

Spec == Init /\ [][Next]_vars

---------------------------------------------------------------------------
(* models.py: the rows of the data model and their defaults.  No route of   *)
(* the repository writes these tables: a row is added through its model     *)
(* class and removed with db.session.delete.                                *)
STATUS_PENDING == "pending"
STATUS_APPROVED_BY_CHAIR == "approved_by_chair"
STATUS_REJECTED_BY_CHAIR == "rejected_by_chair"
STATUS_APPROVED_BY_ADMIN == "approved_by_admin"
STATUS_REJECTED_BY_ADMIN == "rejected_by_admin"
SUBMISSION_STATUSES ==
    {STATUS_PENDING, STATUS_APPROVED_BY_CHAIR, STATUS_REJECTED_BY_CHAIR,
     STATUS_APPROVED_BY_ADMIN, STATUS_REJECTED_BY_ADMIN}
FILE_TYPES == {"pdf", "doc", "docx", "video", "link"}

NewAccreditation(createdBy) == [created_by |-> createdBy]
NewProgram(acc) == [accreditation_id |-> acc]
NewArea(program, chair) == [program_id |-> program, chairperson_id |-> chair]
NewParameter(area, assigned) ==
    [area_id |-> area, assigned_member_id |-> assigned, is_active |-> TRUE]
\* A status column whose default is not pending.
NewSubmissionApproved(parameter, submitter, fileType) ==
    [parameter_id |-> parameter, submitted_by |-> submitter, file_type |-> fileType,
     status |-> STATUS_APPROVED_BY_CHAIR, reviewed_by |-> NULL, reviewed_at |-> 0,
     version |-> 1]
\* The column defaults of Submission: status pending, version 1, no review.
NewSubmission(parameter, submitter, fileType) ==
    [parameter_id |-> parameter, submitted_by |-> submitter, file_type |-> fileType,
     status |-> STATUS_PENDING, reviewed_by |-> NULL, reviewed_at |-> 0,
     version |-> 1]
NewMember(acc, user, addedBy) ==
    [accreditation_id |-> acc, user_id |-> user, added_by |-> addedBy]

\* A Float column holds the quotient n/d, kept as the reduced fraction <<n, d>>.
RECURSIVE Gcd(_, _)
Gcd(a, b) == IF b = 0 THEN a ELSE Gcd(b, a % b)
Ratio(n, d) == IF n = 0 THEN <<0, 1>> ELSE <<n \div Gcd(n, d), d \div Gcd(n, d)>>

\* The column defaults of ProgressTracking: 0, 0, 0.0 and the time of the
\* insert.
NewProgressTracking(program, area) ==
    [program_id |-> program, area_id |-> area, total_parameters |-> 0,
     completed_parameters |-> 0, progress_percentage |-> Ratio(0, 1),
     last_updated |-> 1]
\* last_updated has onupdate=datetime.utcnow: an UPDATE of the row that does
\* not set the column stamps it.
OnUpdate(old, new) ==
    IF new = old THEN old ELSE [new EXCEPT !.last_updated = @ + 1]

\* A variant that leaves out the factor 100.
CalculateProgressUnscaled(row) ==
    IF row.total_parameters > 0
    THEN [row EXCEPT
            !.progress_percentage = Ratio(row.completed_parameters, row.total_parameters),
            !.last_updated = @ + 1]
    ELSE [row EXCEPT !.progress_percentage = Ratio(0, 1), !.last_updated = @ + 1]

\* A variant that counts the call as one more completed Parameter.
CalculateProgressCounting(row) ==
    IF row.total_parameters > 0
    THEN [row EXCEPT
            !.completed_parameters = Min({@ + 1, row.total_parameters}),
            !.progress_percentage =
                Ratio(Min({row.completed_parameters + 1, row.total_parameters}) * 100,
                      row.total_parameters),
            !.last_updated = @ + 1]
    ELSE [row EXCEPT !.progress_percentage = Ratio(0, 1), !.last_updated = @ + 1]

\* ProgressTracking.calculate_progress
CalculateProgress(row) ==
    IF row.total_parameters > 0
    THEN [row EXCEPT
            !.progress_percentage =
                Ratio(row.completed_parameters * 100, row.total_parameters),
            !.last_updated = @ + 1]
    ELSE [row EXCEPT !.progress_percentage = Ratio(0, 1), !.last_updated = @ + 1]

\* cascade='all, delete-orphan' of Accreditation.programs, Accreditation.members,
\* Program.areas, Program.progress_tracking, Area.parameters,
\* Area.progress_tracking and Parameter.submissions: the rows deleted with
\* their parents.
ProgramsOf(accs) == {p \in DOMAIN programs : programs[p].accreditation_id \in accs}
MembersOf(accs) == {m \in DOMAIN members : members[m].accreditation_id \in accs}
\* A Program.areas relationship without its cascade.
AreasOfNoCascade(progs) == {}
AreasOf(progs) == {a \in DOMAIN areas : areas[a].program_id \in progs}
ProgressOfPrograms(progs) == {t \in DOMAIN progress : progress[t].program_id \in progs}
ParametersOf(ars) == {q \in DOMAIN parameters : parameters[q].area_id \in ars}
ProgressOfAreas(ars) ==
    {t \in DOMAIN progress :
        Has(progress[t].area_id) /\ progress[t].area_id[1] \in ars}
SubmissionsOf(pars) == {s \in DOMAIN submissions : submissions[s].parameter_id \in pars}

\* Submission.notifications and Area.notifications declare no cascade: the
\* notification stays and its nullable key is set to NULL.
NullifyRelated(ns, subs, ars) ==
    {[n EXCEPT
        !.related_submission_id =
            IF Has(@) /\ @[1] \in subs THEN NULL ELSE @,
        !.related_area_id = IF Has(@) /\ @[1] \in ars THEN NULL ELSE @] : n \in ns}

---------------------------------------------------------------------------
(* Rows added and removed through the model classes *)
Mark(op, n) == resp' = [route |-> op, code |-> n]

AddAccreditation(max, creators) ==
    \E u \in creators :
        /\ NextId(accreditations) <= max
        /\ accreditations' = Put(accreditations, NextId(accreditations),
                                 NewAccreditation(u))
        /\ Mark("add_accreditation", 0)
        /\ UNCHANGED <<users, session, tokens, programs, areas, parameters,
                       submissions, members, notifications, progress, requests>>

AddProgram(max) ==
    \E a \in DOMAIN accreditations :
        /\ NextId(programs) <= max
        /\ programs' = Put(programs, NextId(programs), NewProgram(a))
        /\ Mark("add_program", 0)
        /\ UNCHANGED <<users, session, tokens, accreditations, areas, parameters,
                       submissions, members, notifications, progress, requests>>

AddArea(max, chairs) ==
    \E p \in DOMAIN programs, c \in chairs :
        /\ NextId(areas) <= max
        /\ areas' = Put(areas, NextId(areas), NewArea(p, c))
        /\ Mark("add_area", 0)
        /\ UNCHANGED <<users, session, tokens, accreditations, programs, parameters,
                       submissions, members, notifications, progress, requests>>

AddParameter(max, assignees) ==
    \E a \in DOMAIN areas, m \in assignees :
        /\ NextId(parameters) <= max
        /\ parameters' = Put(parameters, NextId(parameters), NewParameter(a, m))
        /\ Mark("add_parameter", 0)
        /\ UNCHANGED <<users, session, tokens, accreditations, programs, areas,
                       submissions, members, notifications, progress, requests>>

AddSubmission(max, submitters) ==
    \E q \in DOMAIN parameters, u \in submitters :
        /\ NextId(submissions) <= max
        /\ submissions' = Put(submissions, NextId(submissions),
                              NewSubmission(q, u, "pdf"))
        /\ Mark("add_submission", 0)
        /\ UNCHANGED <<users, session, tokens, accreditations, programs, areas,
                       parameters, members, notifications, progress, requests>>

\* unique_accreditation_member: one row per (accreditation, user).
AddMember(max, people) ==
    \E a \in DOMAIN accreditations, u \in people, by \in people :
        /\ NextId(members) <= max
        /\ \A m \in DOMAIN members :
              ~(members[m].accreditation_id = a /\ members[m].user_id = u)
        /\ members' = Put(members, NextId(members), NewMember(a, u, by))
        /\ Mark("add_member", 0)
        /\ UNCHANGED <<users, session, tokens, accreditations, programs, areas,
                       parameters, submissions, notifications, progress, requests>>

\* A row keyed by a program, or by a program and one of its areas.
AddProgressTracking(max) ==
    \E p \in DOMAIN programs :
      \E a \in {NULL} \cup {<<x>> : x \in AreasOf({p})} :
        /\ NextId(progress) <= max
        /\ progress' = Put(progress, NextId(progress), NewProgressTracking(p, a))
        /\ Mark("add_progress_tracking", 0)
        /\ UNCHANGED <<users, session, tokens, accreditations, programs, areas,
                       parameters, submissions, members, notifications, requests>>

\* db.session.delete(accreditation); db.session.commit()
DeleteAccreditation ==
    \E a \in DOMAIN accreditations :
        LET progs == ProgramsOf({a})
            ars == AreasOf(progs)
            pars == ParametersOf(ars)
            subs == SubmissionsOf(pars)
            rows == ProgressOfPrograms(progs) \cup ProgressOfAreas(ars)
            mems == MembersOf({a}) IN
        /\ accreditations' = Remove(accreditations, {a})
        /\ programs' = Remove(programs, progs)
        /\ areas' = Remove(areas, ars)
        /\ parameters' = Remove(parameters, pars)
        /\ submissions' = Remove(submissions, subs)
        /\ progress' = Remove(progress, rows)
        /\ members' = Remove(members, mems)
        /\ notifications' = NullifyRelated(notifications, subs, ars)
        /\ Mark("delete_accreditation",
                Cardinality(progs) + Cardinality(ars) + Cardinality(pars)
                + Cardinality(subs) + Cardinality(rows) + Cardinality(mems))
        /\ UNCHANGED <<users, session, tokens, requests>>

---------------------------------------------------------------------------
(* The ownership tree on its own: rows are added under the bootstrap admin  *)
(* and accreditations are deleted.                                          *)
MaxRows == 2
MaxSideRows == 1

TreeAddAccreditation == AddAccreditation(MaxRows, DOMAIN users)
TreeAddProgram == AddProgram(MaxRows)
TreeAddArea == AddArea(MaxRows, {NULL})
TreeAddParameter == AddParameter(MaxRows, {NULL})
TreeAddSubmission == AddSubmission(MaxRows, DOMAIN users)
TreeAddProgressTracking == AddProgressTracking(MaxSideRows)
TreeAddMember == AddMember(MaxSideRows, DOMAIN users)

NextTree ==
    \/ TreeAddAccreditation
    \/ TreeAddProgram
    \/ TreeAddArea
    \/ TreeAddParameter
    \/ TreeAddSubmission
    \/ TreeAddProgressTracking
    \/ TreeAddMember
    \/ DeleteAccreditation

SpecTree == Init /\ [][NextTree]_vars

(* The rows that refer to users, with users registered and deleted.         *)
MaxRefRows == 1
People == {<<u>> : u \in DOMAIN users}

RefAddAccreditation == AddAccreditation(MaxRefRows, DOMAIN users)
RefAddProgram == AddProgram(MaxRefRows)
RefAddArea == AddArea(MaxRefRows, {NULL} \cup People)
RefAddParameter == AddParameter(MaxRefRows, {NULL} \cup People)
RefAddSubmission == AddSubmission(MaxRefRows, DOMAIN users)
RefAddMember == AddMember(MaxRefRows, DOMAIN users)

NextRefs ==
    \/ DoRegister
    \/ DoLogin
    \/ DoDeleteUser
    \/ RefAddAccreditation
    \/ RefAddProgram
    \/ RefAddArea
    \/ RefAddParameter
    \/ RefAddSubmission
    \/ RefAddMember

SpecRefs == Init /\ [][NextRefs]_vars

(* One ProgressTracking row: its counts are assigned and calculate_progress  *)
(* is called.                                                               *)
MaxCount == 3
MaxUpdates == 6
Counts == 0..MaxCount

SetTotalParameters ==
    \E t \in DOMAIN progress, n \in Counts :
        /\ progress[t].last_updated < MaxUpdates
        /\ progress' = [progress EXCEPT
                          ![t] = OnUpdate(@, [@ EXCEPT !.total_parameters = n])]
        /\ Mark("set_total_parameters", t)
        /\ UNCHANGED <<users, session, tokens, accreditations, programs, areas,
                       parameters, submissions, members, notifications, requests>>

SetCompletedParameters ==
    \E t \in DOMAIN progress, n \in Counts :
        /\ progress[t].last_updated < MaxUpdates
        /\ progress' = [progress EXCEPT
                          ![t] = OnUpdate(@, [@ EXCEPT !.completed_parameters = n])]
        /\ Mark("set_completed_parameters", t)
        /\ UNCHANGED <<users, session, tokens, accreditations, programs, areas,
                       parameters, submissions, members, notifications, requests>>

DoCalculateProgress ==
    \E t \in DOMAIN progress :
        /\ progress[t].last_updated < MaxUpdates
        /\ progress' = [progress EXCEPT ![t] = CalculateProgress(@)]
        /\ Mark("calculate_progress", t)
        /\ UNCHANGED <<users, session, tokens, accreditations, programs, areas,
                       parameters, submissions, members, notifications, requests>>

InitProgress ==
    /\ InitUsers
    /\ accreditations = Put(EmptyTable, 1, NewAccreditation(1))
    /\ programs = Put(EmptyTable, 1, NewProgram(1))
    /\ areas = EmptyTable
    /\ parameters = EmptyTable
    /\ submissions = EmptyTable
    /\ members = EmptyTable
    /\ notifications = {}
    /\ progress = Put(EmptyTable, 1, NewProgressTracking(1, NULL))

NextProgress ==
    \/ SetTotalParameters
    \/ SetCompletedParameters
    \/ DoCalculateProgress

SpecProgress == InitProgress /\ [][NextProgress]_vars

---------------------------------------------------------------------------
(* The submission review workflow and the progress aggregation.  The        *)
(* repository holds their tables (models.py) and no operation on them: the  *)
(* operations below follow the specification (sections 4.1 to 4.3).         *)
MaxSubmissions == 2
Payloads == {"pdf", "none"}

\* What a workflow operation returns: the response code and the tables.
Out(code, subs, notes, rows) ==
    [code |-> code, submissions |-> subs, notifications |-> notes, progress |-> rows]
Rejected(code) == Out(code, submissions, notifications, progress)

Notify(user, type, title, sub, area) ==
    [user_id |-> user, type |-> type, title |-> title,
     related_submission_id |-> <<sub>>, related_area_id |-> <<area>>]

VersionsOf(subs, q) == {subs[x].version : x \in {y \in DOMAIN subs : subs[y].parameter_id = q}}
MaxVersion(subs, q) == IF VersionsOf(subs, q) = {} THEN 0 ELSE Max(VersionsOf(subs, q))

\* A variant that leaves the version to the column default.
SubmitDefaultVersion(q, submitter, payload) ==
    IF q \notin DOMAIN parameters THEN Rejected(404)
    ELSE IF payload \notin FILE_TYPES THEN Rejected(400)
    ELSE LET id == NextId(submissions)
             area == parameters[q].area_id
             chair == areas[area].chairperson_id IN
         Out(201, Put(submissions, id, NewSubmission(q, submitter, payload)),
             IF Has(chair)
             THEN notifications \cup {Notify(chair[1], "assignment", "submitted", id, area)}
             ELSE notifications,
             progress)

\* Submit(parameter, submitter, payload)
Submit(q, submitter, payload) ==
    IF q \notin DOMAIN parameters THEN Rejected(404)
    ELSE IF payload \notin FILE_TYPES THEN Rejected(400)
    ELSE LET id == NextId(submissions)
             area == parameters[q].area_id
             chair == areas[area].chairperson_id
             row == [NewSubmission(q, submitter, payload) EXCEPT
                       !.version = MaxVersion(submissions, q) + 1] IN
         Out(201, Put(submissions, id, row),
             IF Has(chair)
             THEN notifications \cup {Notify(chair[1], "assignment", "submitted", id, area)}
             ELSE notifications,
             progress)

Reviewed(row, status, reviewer) ==
    [row EXCEPT !.status = status, !.reviewed_by = <<reviewer>>,
                !.reviewed_at = @ + 1]

\* A variant that does not look at the current status.
ReviewChairAnyStatus(x, reviewer, approve) ==
    LET area == parameters[submissions[x].parameter_id].area_id IN
    Out(200,
        [submissions EXCEPT ![x] =
            Reviewed(@, IF approve THEN STATUS_APPROVED_BY_CHAIR
                        ELSE STATUS_REJECTED_BY_CHAIR, reviewer)],
        notifications \cup
          {Notify(submissions[x].submitted_by,
                  IF approve THEN "approval" ELSE "rejection",
                  "chair_review", x, area)},
        progress)

\* Review as chair(submission, decision)
ReviewChair(x, reviewer, approve) ==
    LET area == parameters[submissions[x].parameter_id].area_id IN
    IF submissions[x].status # STATUS_PENDING THEN Rejected(409)
    ELSE Out(200,
             [submissions EXCEPT ![x] =
                 Reviewed(@, IF approve THEN STATUS_APPROVED_BY_CHAIR
                             ELSE STATUS_REJECTED_BY_CHAIR, reviewer)],
             notifications \cup
               {Notify(submissions[x].submitted_by,
                       IF approve THEN "approval" ELSE "rejection",
                       "chair_review", x, area)},
             progress)

\* Authorization of a chair action: the caller is the Area's chairperson.
ChairRequired(x, caller, approve) ==
    IF x \notin DOMAIN submissions THEN Rejected(404)
    ELSE IF areas[parameters[submissions[x].parameter_id].area_id].chairperson_id
              # <<caller>>
         THEN Rejected(403)
    ELSE ReviewChair(x, caller, approve)

\* The Parameters a ProgressTracking row aggregates over.
Scope(row) ==
    {q \in DOMAIN parameters :
        /\ parameters[q].is_active
        /\ IF Has(row.area_id) THEN parameters[q].area_id = row.area_id[1]
           ELSE areas[parameters[q].area_id].program_id = row.program_id}
\* Whether the latest-version Submission of parameter q is approved_by_admin.
Completed(subs, q) ==
    \E x \in DOMAIN subs :
        /\ subs[x].parameter_id = q
        /\ subs[x].version = MaxVersion(subs, q)
        /\ subs[x].status = STATUS_APPROVED_BY_ADMIN
CompletedIn(row, subs) == Cardinality({q \in Scope(row) : Completed(subs, q)})

\* A variant that counts the approval at hand instead of recounting.
RecomputeIncrement(rows, subs, program, area) ==
    [t \in DOMAIN rows |->
        IF rows[t].program_id = program /\ rows[t].area_id = area
        THEN CalculateProgress(
                [rows[t] EXCEPT !.total_parameters = Cardinality(Scope(rows[t])),
                                !.completed_parameters = @ + 1])
        ELSE rows[t]]

\* Recompute(program_id, area_id?)
Recompute(rows, subs, program, area) ==
    [t \in DOMAIN rows |->
        IF rows[t].program_id = program /\ rows[t].area_id = area
        THEN CalculateProgress(
                [rows[t] EXCEPT !.total_parameters = Cardinality(Scope(rows[t])),
                                !.completed_parameters = CompletedIn(rows[t], subs)])
        ELSE rows[t]]

\* Review as admin(submission, decision)
ReviewAdmin(x, reviewer, approve) ==
    IF submissions[x].status # STATUS_APPROVED_BY_CHAIR THEN Rejected(409)
    ELSE LET area == parameters[submissions[x].parameter_id].area_id
             program == areas[area].program_id
             subs == [submissions EXCEPT ![x] =
                        Reviewed(@, IF approve THEN STATUS_APPROVED_BY_ADMIN
                                    ELSE STATUS_REJECTED_BY_ADMIN, reviewer)]
             notes == notifications \cup
                        {Notify(submissions[x].submitted_by,
                                IF approve THEN "approval" ELSE "rejection",
                                "admin_review", x, area)} IN
         Out(200, subs, notes,
             IF approve
             THEN Recompute(Recompute(progress, subs, program, <<area>>),
                            subs, program, NULL)
             ELSE progress)

\* Authorization of an admin action: the caller has is_admin.
AdminReviewRequired(x, caller, approve) ==
    IF x \notin DOMAIN submissions THEN Rejected(404)
    ELSE IF ~IsAdmin(users, caller) THEN Rejected(403)
    ELSE ReviewAdmin(x, caller, approve)

ApplyReview(route, r) ==
    /\ submissions' = r.submissions
    /\ notifications' = r.notifications
    /\ progress' = r.progress
    /\ resp' = [route |-> route, code |-> r.code]
    /\ UNCHANGED <<users, session, tokens, accreditations, programs, areas,
                   parameters, members, requests>>

DoSubmit ==
    \E q \in 1..(Cardinality(DOMAIN parameters) + 1), u \in DOMAIN users,
       payload \in Payloads :
        LET r == Submit(q, u, payload) IN
        /\ DOMAIN r.submissions \subseteq 1..MaxSubmissions
        /\ ApplyReview("submit", r)

DoReviewChair ==
    \E x \in 1..(Cardinality(DOMAIN submissions) + 1), caller \in DOMAIN users,
       approve \in BOOLEAN :
        ApplyReview("review_chair", ChairRequired(x, caller, approve))

DoReviewAdmin ==
    \E x \in 1..(Cardinality(DOMAIN submissions) + 1), caller \in DOMAIN users,
       approve \in BOOLEAN :
        ApplyReview("review_admin", AdminReviewRequired(x, caller, approve))

\* An administrator and a chairperson; one Accreditation with one Program and
\* one Area of two Parameters; the Program's and the Area's ProgressTracking
\* rows.
Member(email) ==
    SetPassword(NewUser(email, "Administrator", FALSE), "secret")
InitReview ==
    /\ users = Put(Bootstrap(EmptyTable), 2, Member("user@ecap.com"))
    /\ session = Clean
    /\ tokens = {}
    /\ resp = [route |-> "create_app", code |-> 0]
    /\ requests = EmptyTable
    /\ accreditations = Put(EmptyTable, 1, NewAccreditation(1))
    /\ programs = Put(EmptyTable, 1, NewProgram(1))
    /\ areas = Put(EmptyTable, 1, NewArea(1, <<2>>))
    /\ parameters = Put(Put(EmptyTable, 1, NewParameter(1, <<2>>)),
                        2, NewParameter(1, NULL))
    /\ submissions = EmptyTable
    /\ members = EmptyTable
    /\ notifications = {}
    /\ progress = Put(Put(EmptyTable, 1, NewProgressTracking(1, NULL)),
                      2, NewProgressTracking(1, <<1>>))

NextReview ==
    \/ DoSubmit
    \/ DoReviewChair
    \/ DoReviewAdmin

SpecReview == InitReview /\ [][NextReview]_vars

---------------------------------------------------------------------------
(* Requests handled concurrently.  Each request has its own db.session; a   *)
(* query and a commit are each one step on the store, and the handler's     *)
(* code between two of them sees only what it has read.  The requests are   *)
(* register, create_user and delete_user, with their required fields.       *)
MaxRequests == 2
SecondAdminEmail == "admin2@ecap.com"

\* A request in flight: where its handler stands (pc) and, once it is done,
\* its response code and the id of the row it created (made, 0 for none).
Request(route, pc, caller, target, email, isAdmin) ==
    [route |-> route, pc |-> pc, caller |-> caller, target |-> target,
     email |-> email, is_admin |-> isAdmin, code |-> 0, made |-> 0]

Pending(pcs) == {k \in DOMAIN requests : requests[k].pc \in pcs}
Done(k, code, made) ==
    /\ requests' = [requests EXCEPT ![k].pc = "done", ![k].code = code,
                                    ![k].made = made]
    /\ resp' = [route |-> requests[k].route, code |-> code]
Goto(k, pc) ==
    /\ requests' = [requests EXCEPT ![k].pc = pc]
    /\ UNCHANGED resp

Arrive(r) ==
    /\ NextId(requests) <= MaxRequests
    /\ requests' = Put(requests, NextId(requests), r)
    /\ UNCHANGED <<users, session, tokens, resp, accreditations, programs, areas,
                   parameters, submissions, members, notifications, progress>>

ArriveRegister ==
    \E email \in Emails : Arrive(Request("register", "lookup", 0, 0, email, FALSE))

ArriveCreateUser ==
    \E caller \in tokens, email \in Emails, isAdmin \in BOOLEAN :
        Arrive(Request("create_user", "admin", caller, 0, email, isAdmin))

ArriveDeleteUser ==
    \E caller \in tokens, target \in 1..(MaxUserId + 1) :
        Arrive(Request("delete_user", "admin", caller, target, "", FALSE))

\* admin_required, and in delete_user the comparison of the two ids.
StepAdminRequired ==
    \E k \in Pending({"admin"}) :
        LET r == requests[k] IN
        /\ IF ~AdminRequired(users, Clean, r.caller) THEN Done(k, 403, 0)
           ELSE IF r.route = "delete_user"
                THEN IF r.caller = r.target THEN Done(k, 400, 0) ELSE Goto(k, "get")
                ELSE Goto(k, "lookup")
        /\ UNCHANGED <<users, session, tokens, accreditations, programs, areas,
                       parameters, submissions, members, notifications, progress>>

\* User.query.filter_by(email=data['email']).first()
StepLookup ==
    \E k \in Pending({"lookup"}) :
        /\ IF EmailTaken(users, requests[k].email) THEN Done(k, 409, 0)
           ELSE Goto(k, "insert")
        /\ UNCHANGED <<users, session, tokens, accreditations, programs, areas,
                       parameters, submissions, members, notifications, progress>>

\* db.session.add(user); db.session.commit()
StepInsert ==
    \E k \in Pending({"insert"}), dbFail \in BOOLEAN :
        LET r == requests[k]
            id == NextId(users)
            user == SetPassword(NewUser(r.email, "Administrator", r.is_admin),
                                "secret")
            written == Put(users, id, user) IN
        /\ IF CommitOk(written, dbFail)
           THEN users' = written /\ Done(k, 201, id)
           ELSE users' = users /\ Done(k, 500, 0)
        /\ UNCHANGED <<session, tokens, accreditations, programs, areas,
                       parameters, submissions, members, notifications, progress>>

\* User.query.get(user_id)
StepGet ==
    \E k \in Pending({"get"}) :
        /\ IF requests[k].target \notin DOMAIN users THEN Done(k, 404, 0)
           ELSE Goto(k, "delete")
        /\ UNCHANGED <<users, session, tokens, accreditations, programs, areas,
                       parameters, submissions, members, notifications, progress>>

\* db.session.delete(user); db.session.commit().  The DELETE of a row that
\* another request has deleted matches no row and the flush raises.
StepDelete ==
    \E k \in Pending({"delete"}), dbFail \in BOOLEAN :
        LET target == requests[k].target IN
        /\ IF /\ target \in DOMAIN users
              /\ CommitOk(Remove(users, {target}), dbFail)
              /\ ~ReferencedNotNull(target)
           THEN /\ users' = Remove(users, {target})
                /\ areas' = NullifyChair(areas, target)
                /\ parameters' = NullifyAssigned(parameters, target)
                /\ submissions' = NullifyReviewer(submissions, target)
                /\ Done(k, 200, 0)
           ELSE /\ UNCHANGED <<users, areas, parameters, submissions>>
                /\ Done(k, 500, 0)
        /\ UNCHANGED <<session, tokens, accreditations, programs, members,
                       notifications, progress>>

\* Two admins, both logged in: the default admin and one it created.
InitConcurrent ==
    /\ users = Put(Put(EmptyTable, 1, [DefaultAdmin EXCEPT !.last_login = 1]),
                   2, [SetPassword(NewUser(SecondAdminEmail, "Administrator", TRUE),
                                   "secret") EXCEPT !.last_login = 1])
    /\ session = Clean
    /\ tokens = {1, 2}
    /\ resp = [route |-> "login", code |-> 200]
    /\ requests = EmptyTable
    /\ InitNoData

NextConcurrent ==
    \/ ArriveRegister
    \/ ArriveCreateUser
    \/ ArriveDeleteUser
    \/ StepAdminRequired
    \/ StepLookup
    \/ StepInsert
    \/ StepGet
    \/ StepDelete

SpecConcurrent == InitConcurrent /\ [][NextConcurrent]_vars

---------------------------------------------------------------------------
(* Admin reviews handled concurrently (specification, sections 4.1, 4.2 and *)
(* 5).  A review is one transaction: it checks the caller and the           *)
(* transition, takes the lock of the ProgressTracking rows when it is a     *)
(* final approval, recounts over the committed Submissions and its own      *)
(* status change, and commits the status, the Notification and the rows.    *)
(* The commit writes the status only where the transition is still legal on *)
(* the committed row; otherwise the transaction rolls back with 409.        *)
ApprovalRequest(x, caller, approve) ==
    [route |-> "review_admin", pc |-> "check", caller |-> caller, target |-> x,
     approve |-> approve, code |-> 0, rows |-> EmptyTable]

ArriveReviewAdmin ==
    \E x \in 1..(Cardinality(DOMAIN submissions) + 1), caller \in DOMAIN users,
       approve \in BOOLEAN :
        Arrive(ApprovalRequest(x, caller, approve))

Answer(k, code) ==
    /\ requests' = [requests EXCEPT ![k].pc = "done", ![k].code = code]
    /\ resp' = [route |-> requests[k].route, code |-> code]

\* The authorization and the transition check, on the committed state.
StepCheck ==
    \E k \in Pending({"check"}) :
        LET r == requests[k]
            out == AdminReviewRequired(r.target, r.caller, r.approve) IN
        /\ IF out.code # 200 THEN Answer(k, out.code)
           ELSE Goto(k, IF r.approve THEN "lock" ELSE "commit")
        /\ UNCHANGED <<users, session, tokens, accreditations, programs, areas,
                       parameters, submissions, members, notifications, progress>>

\* A variant that takes no lock.
LockFreeUnchecked(k) == TRUE
\* The row lock is free when no other transaction holds it.
LockFree(k) == Pending({"count", "write"}) \ {k} = {}

StepLock ==
    \E k \in Pending({"lock"}) :
        /\ LockFree(k)
        /\ Goto(k, "count")
        /\ UNCHANGED <<users, session, tokens, accreditations, programs, areas,
                       parameters, submissions, members, notifications, progress>>

\* What the transaction of request r sees: the committed Submissions and its
\* own status change.
Seen(r) ==
    [submissions EXCEPT ![r.target] =
        Reviewed(@, STATUS_APPROVED_BY_ADMIN, r.caller)]

\* Recompute for the owning Area and Program, under the lock.
StepCount ==
    \E k \in Pending({"count"}) :
        LET r == requests[k]
            area == parameters[submissions[r.target].parameter_id].area_id
            program == areas[area].program_id
            rows == Recompute(Recompute(progress, Seen(r), program, <<area>>),
                              Seen(r), program, NULL) IN
        /\ requests' = [requests EXCEPT ![k].pc = "write", ![k].rows = rows]
        /\ UNCHANGED <<users, session, tokens, resp, accreditations, programs,
                       areas, parameters, submissions, members, notifications,
                       progress>>

\* The transition of request r is still legal on the committed row.
StillLegal(r) == submissions[r.target].status = STATUS_APPROVED_BY_CHAIR

\* The transaction of request k rolls back: nothing is written.
RollbackReview(k) ==
    /\ Answer(k, 409)
    /\ UNCHANGED <<users, session, tokens, accreditations, programs, areas,
                   parameters, submissions, members, notifications, progress>>

\* The commit of a final approval: the status, the Notification and the
\* recounted rows; the lock is released.
StepWrite ==
    \E k \in Pending({"write"}) :
        LET r == requests[k]
            area == parameters[submissions[r.target].parameter_id].area_id IN
        IF ~StillLegal(r) THEN RollbackReview(k) ELSE
        /\ submissions' = Seen(r)
        /\ notifications' = notifications \cup
              {Notify(submissions[r.target].submitted_by, "approval",
                      "admin_review", r.target, area)}
        /\ progress' = r.rows
        /\ Answer(k, 200)
        /\ UNCHANGED <<users, session, tokens, accreditations, programs, areas,
                       parameters, members>>

\* The commit of a rejection: no recount.
StepCommitRejection ==
    \E k \in Pending({"commit"}) :
        LET r == requests[k]
            area == parameters[submissions[r.target].parameter_id].area_id IN
        IF ~StillLegal(r) THEN RollbackReview(k) ELSE
        /\ submissions' = [submissions EXCEPT ![r.target] =
                              Reviewed(@, STATUS_REJECTED_BY_ADMIN, r.caller)]
        /\ notifications' = notifications \cup
              {Notify(submissions[r.target].submitted_by, "rejection",
                      "admin_review", r.target, area)}
        /\ Answer(k, 200)
        /\ UNCHANGED <<users, session, tokens, accreditations, programs, areas,
                       parameters, members, progress>>

\* The state of InitReview after a Submission of each Parameter was made by
\* the chairperson's colleague (user 1) and approved by the chairperson.
InitApprovals ==
    /\ users = Put(Bootstrap(EmptyTable), 2, Member("user@ecap.com"))
    /\ session = Clean
    /\ tokens = {}
    /\ resp = [route |-> "review_chair", code |-> 200]
    /\ requests = EmptyTable
    /\ accreditations = Put(EmptyTable, 1, NewAccreditation(1))
    /\ programs = Put(EmptyTable, 1, NewProgram(1))
    /\ areas = Put(EmptyTable, 1, NewArea(1, <<2>>))
    /\ parameters = Put(Put(EmptyTable, 1, NewParameter(1, <<2>>)),
                        2, NewParameter(1, NULL))
    /\ submissions =
          Put(Put(EmptyTable,
                  1, Reviewed(NewSubmission(1, 1, "pdf"), STATUS_APPROVED_BY_CHAIR, 2)),
                  2, Reviewed(NewSubmission(2, 1, "pdf"), STATUS_APPROVED_BY_CHAIR, 2))
    /\ members = EmptyTable
    /\ notifications =
          {Notify(2, "assignment", "submitted", x, 1) : x \in {1, 2}}
          \cup {Notify(1, "approval", "chair_review", x, 1) : x \in {1, 2}}
    /\ progress = Put(Put(EmptyTable, 1, NewProgressTracking(1, NULL)),
                      2, NewProgressTracking(1, <<1>>))

NextApprovals ==
    \/ ArriveReviewAdmin
    \/ StepCheck
    \/ StepLock
    \/ StepCount
    \/ StepWrite
    \/ StepCommitRejection

SpecApprovals == InitApprovals /\ [][NextApprovals]_vars

---------------------------------------------------------------------------
(* Properties of the auth and admin routes.  Each quantifies over every     *)
(* request the route can receive in the current state.                      *)

\* What a request leaves of the user table once it has ended.
Untouched(r) ==
    /\ r.users = users
    /\ Teardown(r.session) = Clean
    /\ r.areas = areas /\ r.parameters = parameters /\ r.submissions = submissions

\* The responses of the admin routes to a request of `caller`.
AdminResults(caller) ==
    {GetAllUsers(users, session, caller)}
    \cup {GetUser(users, session, caller, t) : t \in UserIds}
    \cup {CreateUser(users, session, caller, d, g, f) :
            d \in CreateUserData, g \in GeneratedPasswords, f \in BOOLEAN}
    \cup {UpdateUser(users, session, caller, t, d, f) :
            t \in UserIds, d \in UpdateUserData \cup {NoBody}, f \in BOOLEAN}
    \cup {DeleteUser(users, session, caller, t, f) : t \in UserIds, f \in BOOLEAN}
    \cup {ResetUserPassword(users, session, caller, t, g, f) :
            t \in UserIds, g \in GeneratedPasswords, f \in BOOLEAN}

AdminRoutes == {"get_all_users", "get_user", "create_user", "update_user",
                "delete_user", "reset_user_password"}

\* C2: every admin route answers a caller who does not exist or is not an
\* admin in the stored user table with 403 and leaves the user table (and
\* the session) as it was.
C2_AdminRequiredBeforeMutation ==
    /\ session = Clean
    /\ \A caller \in 0..(MaxUserId + 1) :
          ~IsAdmin(users, caller) =>
             \A r \in AdminResults(caller) : r.code = 403 /\ Untouched(r)

\* C2 witness: a token holder who is not an admin was just refused by
\* update_user.
C2_Witness ==
    /\ resp = [route |-> "update_user", code |-> 403]
    /\ \E caller \in tokens : caller \in DOMAIN users /\ ~users[caller].is_admin

\* The responses of the routes that write, to any request.
MutatingResults ==
    {Login(users, session, d, f) : d \in LoginData, f \in BOOLEAN}
    \cup {Register(users, session, d, f) : d \in RegisterData, f \in BOOLEAN}
    \cup {ChangePassword(users, session, c, d, f) :
            c \in UserIds, d \in ChangePasswordData, f \in BOOLEAN}
    \cup UNION {AdminResults(c) : c \in UserIds}

\* C4: a request that is answered with an error (4xx or 5xx) leaves the
\* persistent user table as it was before the request and the session with
\* no pending change, also when the failure comes after fields were assigned.
C4_ErrorsLeaveNoWrite ==
    /\ session = Clean
    /\ \A r \in MutatingResults : r.code >= 400 => Untouched(r)

\* C4 witness: update_user has just failed with 500 on a user table that
\* holds a row it could have changed.
C4_Witness ==
    /\ resp = [route |-> "update_user", code |-> 500]
    /\ session = Clean
    /\ Cardinality(DOMAIN users) = 2

\* The users with is_admin = true.
Admins(tbl) == {u \in DOMAIN tbl : tbl[u].is_admin}

\* C13: register creates a user with is_admin = false whatever its body
\* holds, and the set of users with is_admin = true is left as it was by
\* every request other than a create_user, update_user or delete_user whose
\* caller was an admin when the request was checked (and by every request of
\* login, register, change_password, get_all_users, get_user and
\* reset_user_password).
C13_OnlyAdminsChangeAdmins ==
    /\ \A d \in RegisterData, f \in BOOLEAN :
          LET r == Register(users, session, d, f) IN
          /\ Admins(r.users) = Admins(users)
          /\ \A u \in DOMAIN r.users \ DOMAIN users : ~r.users[u].is_admin
    /\ \A d \in LoginData, f \in BOOLEAN :
          Admins(Login(users, session, d, f).users) = Admins(users)
    /\ \A c \in UserIds, d \in ChangePasswordData, f \in BOOLEAN :
          Admins(ChangePassword(users, session, c, d, f).users) = Admins(users)
    /\ \A c \in UserIds, t \in UserIds, g \in GeneratedPasswords, f \in BOOLEAN :
          /\ Admins(GetAllUsers(users, session, c).users) = Admins(users)
          /\ Admins(GetUser(users, session, c, t).users) = Admins(users)
          /\ Admins(ResetUserPassword(users, session, c, t, g, f).users)
                = Admins(users)
    /\ \A c \in 0..(MaxUserId + 1) :
          ~IsAdmin(users, c) =>
             /\ \A d \in CreateUserData, g \in GeneratedPasswords, f \in BOOLEAN :
                   CreateUser(users, session, c, d, g, f).users = users
             /\ \A t \in UserIds, d \in UpdateUserData \cup {NoBody}, f \in BOOLEAN :
                   UpdateUser(users, session, c, t, d, f).users = users
             /\ \A t \in UserIds, f \in BOOLEAN :
                   DeleteUser(users, session, c, t, f).users = users

\* C13 witness: register has just created a user, who is not an admin, next
\* to the one admin.
C13_Witness ==
    /\ resp = [route |-> "register", code |-> 201]
    /\ Cardinality(DOMAIN users) = 2
    /\ Cardinality(Admins(users)) = 1
    /\ tokens # {}

\* Whether a login request names a stored, active user and that user's password.
Authenticates(d) ==
    /\ Has(d.email) /\ Has(d.password)
    /\ \E u \in ByEmail(users, d.email[1]) :
          CheckPassword(users[u], d.password[1]) /\ users[u].is_active

\* C15: a login request (an email and a password) for a user whose
\* is_active is false, also with the correct password, for an unknown email
\* or with a wrong password is answered 401, issues no access token and
\* leaves last_login (the whole user table) unchanged; a request that lacks
\* the email or the password issues no token and changes nothing either.
C15_NoLoginUnlessActive ==
    \A d \in LoginData, f \in BOOLEAN :
        ~Authenticates(d) =>
            LET r == Login(users, session, d, f) IN
            /\ r.token = 0
            /\ r.users = users
            /\ (Has(d.email) /\ Has(d.password)) => r.code = 401

\* C15 witness: a user who logged in once and was then disabled has just
\* been refused.
C15_Witness ==
    /\ resp = [route |-> "login", code |-> 401]
    /\ \E u \in DOMAIN users :
          ~users[u].is_active /\ users[u].last_login = 1 /\ u \in tokens
    /\ \A u \in DOMAIN users : users[u].is_active \/ ~users[u].is_admin

\* C17: at most one user has the email admin@ecap.com in every reachable
\* state, and a run of create_app either leaves the user table as it was or,
\* when no user has that email, adds one user with that email and is_admin
\* true and changes no other row.
C17_BootstrapIdempotent ==
    /\ [](Cardinality(ByEmail(users, AdminEmail)) <= 1)
    /\ [][resp'.route = "create_app" =>
             \/ users' = users
             \/ /\ ByEmail(users, AdminEmail) = {}
                /\ \E u \in DOMAIN users' \ DOMAIN users :
                      /\ users' = Put(users, u, users'[u])
                      /\ users'[u].email = AdminEmail
                      /\ users'[u].is_admin]_vars

\* C17 witness: create_app has just run on a table whose admin@ecap.com row
\* has another password and is no longer an admin.
C17_Witness ==
    /\ resp.route = "create_app"
    /\ \E u \in ByEmail(users, AdminEmail) :
          /\ ~CheckPassword(users[u], "admin123")
          /\ ~users[u].is_admin
    /\ Cardinality(DOMAIN users) = 2

\* C14: no reachable state has two users sharing an email, and every
\* register or create_user request that has ended and did not create a user
\* was answered with an error (the one that created it with 201).
C14_OneUserPerEmail ==
    /\ \A u, v \in DOMAIN users : users[u].email = users[v].email => u = v
    /\ \A k \in Pending({"done"}) :
          requests[k].route \in {"register", "create_user"} =>
             IF requests[k].made = 0 THEN requests[k].code >= 400
             ELSE requests[k].code = 201

\* C14 witness: of two concurrent requests for the same free email that both
\* got past the lookup, one created the user and the other was answered 500.
C14_Witness ==
    \E j, k \in Pending({"done"}) :
        /\ requests[j].email = requests[k].email
        /\ requests[j].route = "register" /\ requests[k].route = "create_user"
        /\ requests[j].code = 201 /\ requests[j].made \in DOMAIN users
        /\ requests[k].code = 500
        /\ Cardinality(ByEmail(users, requests[j].email)) = 1

\* C16: delete_user with the caller's own id is answered 400 and removes
\* nothing, and from a state with an admin no interleaving of delete_user
\* requests reaches a state without an admin.
C16_AdminRemains ==
    /\ \A c \in Admins(users), f \in BOOLEAN :
          LET r == DeleteUser(users, session, c, c, f) IN
          r.code = 400 /\ r.users = users
    /\ Admins(users) # {}

\* C9 as stated: any register or create_user request whose email belongs to a
\* stored user is answered 409 and writes nothing.
C9_Original ==
    /\ \A d \in RegisterData, f \in BOOLEAN :
          (Has(d.email) /\ ByEmail(users, d.email[1]) # {}) =>
             LET r == Register(users, session, d, f) IN
             r.code = 409 /\ Untouched(r)
    /\ \A c \in UserIds, d \in CreateUserData,
          g \in GeneratedPasswords, f \in BOOLEAN :
          (Has(d.email) /\ ByEmail(users, d.email[1]) # {}) =>
             LET r == CreateUser(users, session, c, d, g, f) IN
             r.code = 409 /\ Untouched(r)

\* C9 amended: a register or create_user request whose email belongs to a
\* stored user writes nothing; it is answered 409 when it passes the checks
\* made before the lookup (create_user: an admin caller; both: every required
\* field present), and 403 or 400 by those checks otherwise.
C9_DuplicateEmailNoWrite ==
    /\ \A d \in RegisterData, f \in BOOLEAN :
          (Has(d.email) /\ ByEmail(users, d.email[1]) # {}) =>
             LET r == Register(users, session, d, f) IN
             /\ Untouched(r)
             /\ r.code = IF Has(d.password) /\ Has(d.profile) THEN 409 ELSE 400
    /\ \A c \in UserIds, d \in CreateUserData,
          g \in GeneratedPasswords, f \in BOOLEAN :
          (Has(d.email) /\ ByEmail(users, d.email[1]) # {}) =>
             LET r == CreateUser(users, session, c, d, g, f) IN
             /\ Untouched(r)
             /\ r.code = IF ~IsAdmin(users, c) THEN 403
                         ELSE IF Has(d.profile) THEN 409 ELSE 400

\* C9 witness: create_user has just answered 409 while two users are stored.
C9_Witness ==
    /\ resp = [route |-> "create_user", code |-> 409]
    /\ Cardinality(DOMAIN users) = 2

---------------------------------------------------------------------------
(* Properties of the data model *)

\* The rows that refer to user uid through any foreign key.
Referenced(uid) ==
    \/ ReferencedNotNull(uid)
    \/ \E a \in DOMAIN areas : areas[a].chairperson_id = <<uid>>
    \/ \E q \in DOMAIN parameters : parameters[q].assigned_member_id = <<uid>>
    \/ \E x \in DOMAIN submissions : submissions[x].reviewed_by = <<uid>>

\* C8: delete_user on a stored user who is still referenced by a row does not
\* remove the user row and does not alter the referencing rows.
C8_NoDeleteWhileReferenced ==
    \A caller \in tokens, target \in DOMAIN users, f \in BOOLEAN :
        Referenced(target) =>
            LET r == DeleteUser(users, session, caller, target, f) IN
            /\ target \in DOMAIN r.users
            /\ r.users = users
            /\ r.areas = areas
            /\ r.parameters = parameters
            /\ r.submissions = submissions

\* The accreditation that owns a row, read along the foreign keys.
AccOfProgram(p) == programs[p].accreditation_id
AccOfArea(a) == AccOfProgram(areas[a].program_id)
AccOfParameter(q) == AccOfArea(parameters[q].area_id)
AccOfSubmission(x) == AccOfParameter(submissions[x].parameter_id)
AccOfProgress(t) == AccOfProgram(progress[t].program_id)

\* In the step from the current state: the rows of table tbl (tbl2 after the
\* step) that acc owned are gone and the others are as they were.
\* The rows `gone` of tbl are absent from tbl2 and every other row is as it was.
Cascaded(tbl, tbl2, gone) ==
    \A i \in DOMAIN tbl :
        IF i \in gone THEN i \notin DOMAIN tbl2
        ELSE i \in DOMAIN tbl2 /\ tbl2[i] = tbl[i]

\* C10: when an Accreditation is deleted, every Program, Area, Parameter,
\* Submission and ProgressTracking row that belonged to it is deleted with
\* it, and the rows that belong to other Accreditations are unchanged.
C10_DeleteCascades ==
    [][\A acc \in DOMAIN accreditations :
          acc \notin DOMAIN accreditations' =>
             /\ \A other \in DOMAIN accreditations \ {acc} :
                   /\ other \in DOMAIN accreditations'
                   /\ accreditations'[other] = accreditations[other]
             /\ Cascaded(programs, programs',
                         {i \in DOMAIN programs : AccOfProgram(i) = acc})
             /\ Cascaded(areas, areas',
                         {i \in DOMAIN areas : AccOfArea(i) = acc})
             /\ Cascaded(parameters, parameters',
                         {i \in DOMAIN parameters : AccOfParameter(i) = acc})
             /\ Cascaded(submissions, submissions',
                         {i \in DOMAIN submissions : AccOfSubmission(i) = acc})
             /\ Cascaded(progress, progress',
                         {i \in DOMAIN progress : AccOfProgress(i) = acc})]_vars

\* C10 witness: an Accreditation that owned at least five rows has just been
\* deleted, and a Submission of another Accreditation is still stored.
C10_Witness ==
    /\ resp.route = "delete_accreditation"
    /\ resp.code >= 5
    /\ accreditations # EmptyTable
    /\ submissions # EmptyTable

---------------------------------------------------------------------------
(* Properties of ProgressTracking *)

\* 100 * completed / total, and 0 when total is 0.
ExpectedPercentage(row) ==
    IF row.total_parameters = 0 THEN Ratio(0, 1)
    ELSE Ratio(100 * row.completed_parameters, row.total_parameters)

\* C5 as stated: in every reachable state of a ProgressTracking row,
\* progress_percentage equals 100 * completed_parameters / total_parameters,
\* and 0 when total_parameters is 0.
C5_Original ==
    \A t \in DOMAIN progress :
        progress[t].progress_percentage = ExpectedPercentage(progress[t])

\* C5 amended: right after calculate_progress has run on a row, its
\* progress_percentage equals 100 * completed_parameters / total_parameters,
\* and 0 when total_parameters is 0.
C5_PercentageAfterCalculate ==
    resp.route = "calculate_progress" =>
        progress[resp.code].progress_percentage = ExpectedPercentage(progress[resp.code])

\* C5 witness: calculate_progress has just run on a row with a proper fraction.
C5_Witness ==
    /\ resp.route = "calculate_progress"
    /\ progress[resp.code].total_parameters = 3
    /\ progress[resp.code].completed_parameters = 2
    /\ progress[resp.code].progress_percentage = <<200, 3>>

\* C11 as stated: applying calculate_progress twice in a row to a
\* ProgressTracking row yields a row identical in every field to the row
\* after the first application.
C11_Original ==
    \A t \in DOMAIN progress :
        CalculateProgress(CalculateProgress(progress[t])) = CalculateProgress(progress[t])

\* The fields of a ProgressTracking row other than last_updated.
Computed(row) == [row EXCEPT !.last_updated = 0]

\* C11 amended: applying calculate_progress twice in a row to a
\* ProgressTracking row yields a row identical to the row after the first
\* application in every field but last_updated, which each call sets to the
\* time of the call.
C11_IdempotentButLastUpdated ==
    \A t \in DOMAIN progress :
        LET once == CalculateProgress(progress[t])
            twice == CalculateProgress(once) IN
        Computed(twice) = Computed(once)

\* C11 witness: calculate_progress has run twice on a row of one completed
\* Parameter out of three.
C11_Witness ==
    /\ resp.route = "calculate_progress"
    /\ progress[resp.code].total_parameters = 3
    /\ progress[resp.code].completed_parameters = 1
    /\ progress[resp.code].progress_percentage = <<100, 3>>
    /\ progress[resp.code].last_updated = 5

---------------------------------------------------------------------------
(* Properties of the review workflow *)

Transitions ==
    {<<STATUS_PENDING, STATUS_APPROVED_BY_CHAIR>>,
     <<STATUS_PENDING, STATUS_REJECTED_BY_CHAIR>>,
     <<STATUS_APPROVED_BY_CHAIR, STATUS_APPROVED_BY_ADMIN>>,
     <<STATUS_APPROVED_BY_CHAIR, STATUS_REJECTED_BY_ADMIN>>}

\* C1: a Submission is created in status pending, and in every step its
\* status either stays or moves along pending -> approved_by_chair,
\* pending -> rejected_by_chair, approved_by_chair -> approved_by_admin or
\* approved_by_chair -> rejected_by_admin; so a status of approved_by_admin,
\* rejected_by_chair or rejected_by_admin never changes again.
C1_StatusMachine ==
    [][\A x \in DOMAIN submissions' :
          IF x \in DOMAIN submissions
          THEN \/ submissions'[x].status = submissions[x].status
               \/ <<submissions[x].status, submissions'[x].status>> \in Transitions
          ELSE submissions'[x].status = STATUS_PENDING]_vars

\* C1 witness: one Submission went all the way to approved_by_admin and
\* another was rejected by the administrator.
C1_Witness ==
    \E x, y \in DOMAIN submissions :
        /\ submissions[x].status = STATUS_APPROVED_BY_ADMIN
        /\ submissions[x].reviewed_at = 2
        /\ submissions[y].status = STATUS_REJECTED_BY_ADMIN

\* What an illegal transition must leave alone.
NoEffect(r) ==
    /\ r.code = 409
    /\ r.submissions = submissions
    /\ r.notifications = notifications
    /\ r.progress = progress

\* C3: chair review of a Submission whose status is not pending, and admin
\* review of a Submission whose status is not approved_by_chair, return a
\* conflict error (409) and leave the Submission's status, reviewer and review
\* timestamp unchanged, with no Notification and no ProgressTracking change.
C3_IllegalTransitionNoEffect ==
    \A x \in DOMAIN submissions, reviewer \in DOMAIN users, approve \in BOOLEAN :
        /\ submissions[x].status # STATUS_PENDING =>
              NoEffect(ReviewChair(x, reviewer, approve))
        /\ submissions[x].status # STATUS_APPROVED_BY_CHAIR =>
              NoEffect(ReviewAdmin(x, reviewer, approve))

\* C3 witness: the administrator's review of a pending Submission has just
\* been answered 409.
C3_Witness ==
    /\ resp = [route |-> "review_admin", code |-> 409]
    /\ \E x \in DOMAIN submissions : submissions[x].status = STATUS_PENDING
    /\ \E x \in DOMAIN submissions : submissions[x].status = STATUS_APPROVED_BY_ADMIN

\* C6 as stated: after any sequence of Submit, chair-review and admin-review
\* operations, for every ProgressTracking row completed_parameters equals the
\* number of Parameters in its scope whose latest-version Submission has
\* status approved_by_admin.
C6_Original ==
    \A t \in DOMAIN progress :
        progress[t].completed_parameters = CompletedIn(progress[t], submissions)

\* The ProgressTracking rows of the Area and of the Program of Submission x.
RowsOwning(x) ==
    LET area == parameters[submissions[x].parameter_id].area_id IN
    {t \in DOMAIN progress :
        /\ progress[t].program_id = areas[area].program_id
        /\ progress[t].area_id \in {NULL, <<area>>}}

\* C6 amended: right after every final approval, for the ProgressTracking
\* rows of the owning Area and Program, completed_parameters equals the
\* number of Parameters in scope whose latest-version Submission has status
\* approved_by_admin.
C6_CompletedAfterFinalApproval ==
    [][\A x \in DOMAIN submissions :
          /\ submissions[x].status # STATUS_APPROVED_BY_ADMIN
          /\ submissions'[x].status = STATUS_APPROVED_BY_ADMIN
          => \A t \in RowsOwning(x) :
                progress'[t].completed_parameters =
                    CompletedIn(progress'[t], submissions')]_vars

\* C6 witness: both Parameters have an approved_by_admin latest Submission
\* and both rows count two of two.
C6_Witness ==
    /\ resp = [route |-> "review_admin", code |-> 200]
    /\ \A t \in DOMAIN progress :
          /\ progress[t].completed_parameters = 2
          /\ progress[t].total_parameters = 2
          /\ progress[t].progress_percentage = <<100, 1>>
    /\ \A q \in DOMAIN parameters : Completed(submissions, q)

\* C7: each Submit for a Parameter creates a Submission whose version is
\* (max existing version for that Parameter) + 1, and in every reachable
\* state no two Submissions of the same Parameter share a version.
C7_VersionsUniqueIncreasing ==
    /\ [][\A x \in DOMAIN submissions' \ DOMAIN submissions :
             submissions'[x].version =
                 MaxVersion(submissions, submissions'[x].parameter_id) + 1]_vars
    /\ [](\A x, y \in DOMAIN submissions :
             /\ x # y
             /\ submissions[x].parameter_id = submissions[y].parameter_id
             => submissions[x].version # submissions[y].version)

\* C7 witness: a Parameter has Submissions of version 1 and version 2.
C7_Witness ==
    \E x, y \in DOMAIN submissions :
        /\ submissions[x].parameter_id = submissions[y].parameter_id
        /\ submissions[x].version = 1
        /\ submissions[y].version = 2
        /\ resp = [route |-> "submit", code |-> 201]

\* A step of a request in flight.
ApprovalStep == StepCheck \/ StepLock \/ StepCount \/ StepWrite \/ StepCommitRejection

===========================================================================
